---- MODULE Spec2Model ----
(***************************************************************************)
(* Key rotation wrapper (pkg/keyrotation/keyrotation.go) together with the *)
(* external keyrotation-binary it shells out to.                           *)
(*                                                                         *)
(* Strings are sequences of one-character strings, so that formatting,     *)
(* parsing and trimming are computed rather than assumed.  A time.Time is  *)
(* a record [unix |-> seconds since 1970-01-01T00:00:00Z,                  *)
(*           off  |-> zone offset east of UTC, in seconds].                *)
(***************************************************************************)
EXTENDS Integers, Sequences, FiniteSets, TLC

VARIABLES installed, binaryPath, now, ticks, held, last, stub, calls, bufs

vars == <<installed, binaryPath, now, ticks, held, last, stub, calls, bufs>>

(***************************************************************************)
(* Bounds of the model.                                                    *)
(***************************************************************************)
\* number of steps the wall clock may advance
MaxTicks == 1
\* the positive tolerance (minutes) callers pass
MaxTolerance == 5
\* number of goroutines that call concurrently
MaxGoroutines == 2

(***************************************************************************)
(* Calendar arithmetic of package time.                                    *)
(***************************************************************************)
SecondsPerDay == 24 * 60 * 60

\* days since 1970-01-01 of the proleptic Gregorian date y-m-d
DaysFromCivil(y, m, d) ==
    LET yy  == IF m <= 2 THEN y - 1 ELSE y
        era == yy \div 400
        yoe == yy - era * 400
        mp  == IF m > 2 THEN m - 3 ELSE m + 9
        doy == (153 * mp + 2) \div 5 + d - 1
        doe == yoe * 365 + yoe \div 4 - yoe \div 100 + doy
    IN  era * 146097 + doe - 719468

\* the Gregorian date [year, month, day] of a day number since 1970-01-01
CivilFromDays(z0) ==
    LET z   == z0 + 719468
        era == z \div 146097
        doe == z - era * 146097
        yoe == (doe - doe \div 1460 + doe \div 36524 - doe \div 146096) \div 365
        doy == doe - (365 * yoe + yoe \div 4 - yoe \div 100)
        mp  == (5 * doy + 2) \div 153
        d   == doy - (153 * mp + 2) \div 5 + 1
        m   == IF mp < 10 THEN mp + 3 ELSE mp - 9
        y   == yoe + era * 400 + (IF m <= 2 THEN 1 ELSE 0)
    IN  [year |-> y, month |-> m, day |-> d]

\* time.Date(y, m, d, h, mi, s, 0, loc) for a fixed-offset location
Date(y, m, d, h, mi, s, off) ==
    [unix |-> DaysFromCivil(y, m, d) * SecondsPerDay + h * 3600 + mi * 60 + s - off,
     off  |-> off]

\* t.UTC(): the same instant, located in UTC
UTC(t) == [unix |-> t.unix, off |-> 0]

\* t.In(loc): the same instant, located in the zone of offset off
In(t, off) == [unix |-> t.unix, off |-> off]

\* t.Add(d) for d a number of seconds
Add(t, secs) == [unix |-> t.unix + secs, off |-> t.off]

\* the day number, since 1970-01-01, that the time shows in its own location
LocalDay(t) == (t.unix + t.off) \div SecondsPerDay

(***************************************************************************)
(* Text: decimal digits, padding, trimming.                                *)
(***************************************************************************)
DigitChars == <<"0", "1", "2", "3", "4", "5", "6", "7", "8", "9">>

DigitChar(n) == DigitChars[n + 1]

DigitSet == {DigitChars[i] : i \in 1..10}

IsDigit(c) == c \in DigitSet

DigitValue(c) == (CHOOSE i \in 1..10 : DigitChars[i] = c) - 1

RECURSIVE Digits(_)
\* the decimal digits of n >= 0, no padding
Digits(n) == IF n < 10 THEN <<DigitChar(n)>>
             ELSE Digits(n \div 10) \o <<DigitChar(n % 10)>>

RECURSIVE ZeroPad(_, _)
\* appendInt(b, n, width): at least width digits, zero-padded on the left
ZeroPad(s, width) == IF Len(s) >= width THEN s ELSE ZeroPad(<<"0">> \o s, width)

\* strconv.Itoa
Itoa(n) == IF n < 0 THEN <<"-">> \o Digits(-n) ELSE Digits(n)

RECURSIVE DecimalValue(_)
DecimalValue(s) == IF s = <<>> THEN 0
                   ELSE 10 * DecimalValue(SubSeq(s, 1, Len(s) - 1)) + DigitValue(s[Len(s)])

AllDigits(s) == s # <<>> /\ \A i \in 1..Len(s) : IsDigit(s[i])

IsSpace(c) == c \in {" ", "\n", "\t", "\r"}

RECURSIVE TrimLeft(_)
TrimLeft(s) == IF s # <<>> /\ IsSpace(Head(s)) THEN TrimLeft(Tail(s)) ELSE s

RECURSIVE TrimRight(_)
TrimRight(s) == IF s # <<>> /\ IsSpace(s[Len(s)])
                THEN TrimRight(SubSeq(s, 1, Len(s) - 1)) ELSE s

\* strings.TrimSpace
TrimSpace(s) == TrimRight(TrimLeft(s))

(***************************************************************************)
(* time.Time.Format for the two layouts the wrapper uses.  The fields are  *)
(* those of the time in its own location.                                  *)
(***************************************************************************)
\* the layout "2006-01-02" applied to a calendar date
DashedLayout(c) ==
    ZeroPad(Digits(c.year), 4) \o <<"-">> \o ZeroPad(Digits(c.month), 2)
      \o <<"-">> \o ZeroPad(Digits(c.day), 2)

\* the layout "20060102" applied to a calendar date
CompactLayout(c) ==
    ZeroPad(Digits(c.year), 4) \o ZeroPad(Digits(c.month), 2) \o ZeroPad(Digits(c.day), 2)

\* the days the model's times can show: 2023-12-25 .. 2024-03-15
DayRange == DaysFromCivil(2023, 12, 25) .. DaysFromCivil(2024, 3, 15)

\* both layouts of every day of DayRange, computed once
DashedOfDay == [z \in DayRange |-> DashedLayout(CivilFromDays(z))]

CompactOfDay == [z \in DayRange |-> CompactLayout(CivilFromDays(z))]

\* t.Format("2006-01-02")
FormatDashed(t) == DashedOfDay[LocalDay(t)]

\* t.Format("20060102")
FormatCompact(t) == CompactOfDay[LocalDay(t)]

(***************************************************************************)
(* Input domains.                                                          *)
(***************************************************************************)
ApiKeys == {<<>>, <<"k", "1">>, <<"k", "2">>}

\* the keys callers encrypt; the other key of ApiKeys is only ever presented
EncryptKeys == {<<>>, <<"k", "1">>}

\* three instants either side of a UTC midnight, located in UTC, and one of them
\* located seven hours east of UTC as well
Times == {Date(2024, 1, 15, 0, 0, 1, 0),
          Date(2024, 1, 15, 23, 59, 0, 0),
          Date(2024, 1, 16, 0, 1, 0, 0),
          In(Date(2024, 1, 15, 23, 59, 0, 0), 7 * 3600)}

\* a tolerance wider than a day
WideTolerance == 24 * 60 + MaxTolerance

Tolerances == {-1, 0, MaxTolerance, WideTolerance}

\* the wall clock starts shortly before the UTC midnight that ends a leap day and
\* advances two minutes a step
ClockStart == Date(2024, 2, 29, 23, 58, 30, 0)

(***************************************************************************)
(* The helper.                                                             *)
(***************************************************************************)
DefaultBinaryPath == "./keyrotation-binary"

CustomBinaryPath == "/opt/keyrotation/keyrotation-binary"

BinaryPaths == {DefaultBinaryPath, CustomBinaryPath}

\* New(): the helper's binaryPath
NewHelper == DefaultBinaryPath

\* NewWithBinaryPath(binaryPath): the helper's binaryPath
NewHelperWithBinaryPath(p) == p

(***************************************************************************)
(* The keyrotation-binary: the scheme the wrapper depends on.              *)
(***************************************************************************)
\* digest of apiKey || "|" || DateStamp under a collision-free one-way hash
KeyedHash(apiKey, stamp) == <<"#">> \o apiKey \o <<"|">> \o stamp

\* the binary's reading of a <date> argument, "YYYY-MM-DD", as a DateStamp
BinaryParseDate(s) ==
    IF /\ Len(s) = 10
       /\ s[5] = "-" /\ s[8] = "-"
       /\ AllDigits(SubSeq(s, 1, 4)) /\ AllDigits(SubSeq(s, 6, 7))
       /\ AllDigits(SubSeq(s, 9, 10))
    THEN [ok |-> TRUE, stamp |-> SubSeq(s, 1, 4) \o SubSeq(s, 6, 7) \o SubSeq(s, 9, 10)]
    ELSE [ok |-> FALSE, stamp |-> <<>>]

\* the binary's reading of a <tolerance> argument
BinaryParseInt(s) ==
    IF AllDigits(s) THEN [ok |-> TRUE, value |-> DecimalValue(s)]
    ELSE IF s # <<>> /\ Head(s) = "-" /\ AllDigits(Tail(s))
         THEN [ok |-> TRUE, value |-> 0 - DecimalValue(Tail(s))]
         ELSE [ok |-> FALSE, value |-> 0]

\* DateStampOf(instant): UTC year-month-day as YYYYMMDD
DateStampOf(t) == FormatCompact(UTC(t))

BinaryFail == [exit |-> 1, stdout |-> <<>>]

BinaryPrint(s) == [exit |-> 0, stdout |-> s \o <<"\n">>]

BoolText(b) == IF b THEN <<"t", "r", "u", "e">> ELSE <<"f", "a", "l", "s", "e">>

\* Encrypt: fails with InvalidInput only if apiKey is empty
BinaryEncrypt(apiKey, stamp) ==
    IF apiKey = <<>> THEN BinaryFail ELSE BinaryPrint(KeyedHash(apiKey, stamp))

\* Validate over a set of candidate DateStamps, tolerance already applied
BinaryValidate(apiKey, encryptedKey, toleranceMinutes, stamps) ==
    IF apiKey = <<>> \/ encryptedKey = <<>> \/ toleranceMinutes < 0 THEN BinaryFail
    ELSE BinaryPrint(BoolText(\E st \in stamps : encryptedKey = KeyedHash(apiKey, st)))

\* the candidate instants of Validate: referenceTime, and referenceTime -+ tolerance
Candidates(referenceTime, toleranceMinutes) ==
    IF toleranceMinutes > 0
    THEN {referenceTime, Add(referenceTime, 0 - toleranceMinutes * 60),
          Add(referenceTime, toleranceMinutes * 60)}
    ELSE {referenceTime}

\* one run of the binary at wall-clock time clock: [exit, stdout]
Binary(cmd, argv, clock) ==
    CASE cmd = "encrypt" /\ Len(argv) = 1 ->
           BinaryEncrypt(argv[1], DateStampOf(clock))
      [] cmd = "encrypt-date" /\ Len(argv) = 2 ->
           LET d == BinaryParseDate(argv[2])
           IN  IF d.ok THEN BinaryEncrypt(argv[1], d.stamp) ELSE BinaryFail
      [] cmd = "validate" /\ Len(argv) = 2 ->
           BinaryValidate(argv[1], argv[2], 0, {DateStampOf(clock)})
      [] cmd = "validate-date" /\ Len(argv) = 3 ->
           LET d == BinaryParseDate(argv[3])
           IN  IF d.ok THEN BinaryValidate(argv[1], argv[2], 0, {d.stamp}) ELSE BinaryFail
      [] cmd = "validate-tolerance" /\ Len(argv) = 3 ->
           LET m == BinaryParseInt(argv[3])
           IN  IF m.ok
               THEN BinaryValidate(argv[1], argv[2], m.value,
                                   {DateStampOf(c) : c \in Candidates(clock, m.value)})
               ELSE BinaryFail
      [] OTHER -> BinaryFail

(***************************************************************************)
(* os/exec: cmd.Run() with cmd.Stdout = &out.                              *)
(***************************************************************************)
NoError == ""

ExitError == "exit status 1"

StartError == "no such file or directory"

Command(path, cmd, argv) == [path |-> path, cmd |-> cmd, argv |-> argv]

\* the program found at an installed path: the keyrotation-binary, unless a
\* stand-in that exits and prints as it likes has been put in its place
NoStub == [on |-> FALSE, exit |-> 0, stdout |-> <<>>]

StandIn(exit, stdout) == [on |-> TRUE, exit |-> exit, stdout |-> stdout]

Executable(cmd, argv, clock) ==
    IF stub.on THEN [exit |-> stub.exit, stdout |-> stub.stdout]
    ELSE Binary(cmd, argv, clock)

\* cmd.Run(): [err, out], on the file system fs at wall-clock time clock
Run(c, fs, clock) ==
    IF c.path \notin fs THEN [err |-> StartError, out |-> <<>>]
    ELSE LET r == Executable(c.cmd, c.argv, clock)
         IN  [err |-> IF r.exit = 0 THEN NoError ELSE ExitError, out |-> r.stdout]

(***************************************************************************)
(* The wrapper: pkg/keyrotation/keyrotation.go.  Each operation returns    *)
(* [ok, out, err]: the bool result, the string result, the error.          *)
(***************************************************************************)
Nil == [msg |-> "", cause |-> ""]

Errorf(msg, cause) == [msg |-> msg, cause |-> cause]

\* a StringResult that drops the error of cmd.Run()
StringResult_IgnoreErr(r, msg) ==
    [ok |-> FALSE, out |-> TrimSpace(r.out), err |-> Nil]

StringResult(r, msg) ==
    IF r.err # NoError
    THEN [ok |-> FALSE, out |-> <<>>, err |-> Errorf(msg, r.err)]
    ELSE [ok |-> FALSE, out |-> TrimSpace(r.out), err |-> Nil]

\* a BoolResult that takes any output of a successful run for a match
BoolResult_AnyOutput(r, msg) ==
    IF r.err # NoError
    THEN [ok |-> FALSE, out |-> <<>>, err |-> Errorf(msg, r.err)]
    ELSE [ok |-> TrimSpace(r.out) # <<>>, out |-> <<>>, err |-> Nil]

\* a BoolResult that reports a mismatch as an error
BoolResult_MismatchIsError(r, msg) ==
    IF r.err # NoError \/ TrimSpace(r.out) # BoolText(TRUE)
    THEN [ok |-> FALSE, out |-> <<>>, err |-> Errorf(msg, ExitError)]
    ELSE [ok |-> TRUE, out |-> <<>>, err |-> Nil]

\* a BoolResult that compares the output as written, untrimmed
BoolResult_NoTrim(r, msg) ==
    IF r.err # NoError
    THEN [ok |-> FALSE, out |-> <<>>, err |-> Errorf(msg, r.err)]
    ELSE [ok |-> r.out = BoolText(TRUE), out |-> <<>>, err |-> Nil]

BoolResult(r, msg) ==
    IF r.err # NoError
    THEN [ok |-> FALSE, out |-> <<>>, err |-> Errorf(msg, r.err)]
    ELSE [ok |-> TrimSpace(r.out) = BoolText(TRUE), out |-> <<>>, err |-> Nil]

EncryptApiKey(k, apiKey) ==
    StringResult(Run(Command(k, "encrypt", <<apiKey>>), installed, now),
                 "failed to encrypt API key")

\* an EncryptApiKeyWithDate that runs the current-date command
EncryptApiKeyWithDate_CurrentDate(k, apiKey, utcDateTime) ==
    StringResult(Run(Command(k, "encrypt", <<apiKey>>), installed, now),
                 "failed to encrypt API key with date")

EncryptApiKeyWithDate(k, apiKey, utcDateTime) ==
    LET dateStr == FormatDashed(utcDateTime)
    IN  StringResult(Run(Command(k, "encrypt-date", <<apiKey, dateStr>>), installed, now),
                     "failed to encrypt API key with date")

\* a ValidateApiKey that sends the date in the yyyyMMdd layout
ValidateApiKey_CompactDate(k, apiKey, encryptedKey, utcDateTime) ==
    LET dateStr == FormatCompact(utcDateTime)
    IN  BoolResult(Run(Command(k, "validate-date", <<apiKey, encryptedKey, dateStr>>),
                       installed, now),
                   "failed to validate API key")

ValidateApiKey(k, apiKey, encryptedKey, utcDateTime) ==
    LET dateStr == FormatDashed(utcDateTime)
    IN  BoolResult(Run(Command(k, "validate-date", <<apiKey, encryptedKey, dateStr>>),
                       installed, now),
                   "failed to validate API key")

\* a ValidateApiKeyWithTolerance that refuses a negative tolerance itself
ValidateApiKeyWithTolerance_ChecksSign(k, apiKey, encryptedKey, utcDateTime, toleranceMinutes) ==
    IF toleranceMinutes < 0
    THEN [ok |-> FALSE, out |-> <<>>,
          err |-> Errorf("failed to validate API key", ExitError)]
    ELSE ValidateApiKey(k, apiKey, encryptedKey, utcDateTime)

ValidateApiKeyWithTolerance(k, apiKey, encryptedKey, utcDateTime, toleranceMinutes) ==
    ValidateApiKey(k, apiKey, encryptedKey, utcDateTime)

\* a ValidateApiKeyToday that passes its two arguments in the wrong order
ValidateApiKeyToday_SwappedArgs(k, apiKey, encryptedKey) ==
    BoolResult(Run(Command(k, "validate", <<encryptedKey, apiKey>>), installed, now),
               "failed to validate API key for today")

ValidateApiKeyToday(k, apiKey, encryptedKey) ==
    BoolResult(Run(Command(k, "validate", <<apiKey, encryptedKey>>), installed, now),
               "failed to validate API key for today")

ValidateApiKeyTodayWithTolerance(k, apiKey, encryptedKey, toleranceMinutes) ==
    BoolResult(Run(Command(k, "validate-tolerance",
                           <<apiKey, encryptedKey, Itoa(toleranceMinutes)>>),
                   installed, now),
               "failed to validate API key with tolerance")

GetDateString(k, utcDateTime) ==
    [ok |-> FALSE, out |-> FormatCompact(utcDateTime), err |-> Nil]

(***************************************************************************)
(* State.                                                                  *)
(*   installed   the paths at which the binary is present and executable   *)
(*   binaryPath  the binaryPath field of the caller's helper               *)
(*   now, ticks  the wall clock and the number of steps it has advanced    *)
(*   last        the most recent call: operation, arguments, results       *)
(*   held        a string result the caller kept from an earlier call      *)
(***************************************************************************)
NoTime == [unix |-> 0, off |-> 0]

Call(op, path, apiKey, encryptedKey, time, tol, r) ==
    [op |-> op, path |-> path, apiKey |-> apiKey, encryptedKey |-> encryptedKey,
     time |-> time, tol |-> tol, ok |-> r.ok, out |-> r.out, err |-> r.err]

NoCall == Call("none", DefaultBinaryPath, <<>>, <<>>, NoTime, 0,
               [ok |-> FALSE, out |-> <<>>, err |-> Nil])

\* the digests a caller may present: the kept result, or nothing
EncryptedKeys == {held.out, <<>>}

StringOps == {"EncryptApiKey", "EncryptApiKeyWithDate", "GetDateString"}

\* the goroutines that call concurrently, and a goroutine that is not in a call
Goroutines == 1..MaxGoroutines

NoResult == [ok |-> FALSE, out |-> <<>>, err |-> Nil]

Idle == [pc |-> "idle", op |-> "none", apiKey |-> <<>>, encryptedKey |-> <<>>,
         time |-> NoTime, tol |-> 0, cmd |-> Command(DefaultBinaryPath, "", <<>>),
         err |-> NoError, res |-> NoResult, alone |-> NoResult]

Init ==
    /\ installed = {DefaultBinaryPath}
    /\ binaryPath = NewHelper
    /\ now = ClockStart
    /\ ticks = 0
    /\ held = NoCall
    /\ last = NoCall
    /\ stub = NoStub
    /\ calls = [g \in Goroutines |-> Idle]
    /\ bufs = [b \in Goroutines |-> <<>>]

\* helper := New()
New ==
    /\ binaryPath' = NewHelper
    /\ UNCHANGED <<calls, bufs, stub, installed, now, ticks, held, last>>

\* helper := NewWithBinaryPath(p)
NewWithBinaryPath ==
    /\ \E p \in BinaryPaths : binaryPath' = NewHelperWithBinaryPath(p)
    /\ UNCHANGED <<calls, bufs, stub, installed, now, ticks, held, last>>

\* time passes
Tick ==
    /\ ticks < MaxTicks
    /\ ticks' = ticks + 1
    /\ now' = Add(now, 120)
    /\ UNCHANGED <<calls, bufs, stub, installed, binaryPath, held, last>>

\* the caller keeps the string the last call returned
Keep ==
    /\ last.op \in StringOps
    /\ last.err = Nil
    /\ held' = last
    /\ UNCHANGED <<calls, bufs, stub, installed, binaryPath, now, ticks, last>>

DoEncryptApiKey(k) ==
    /\ \E apiKey \in EncryptKeys :
         last' = Call("EncryptApiKey", k, apiKey, <<>>, UTC(now), 0,
                      EncryptApiKey(k, apiKey))
    /\ UNCHANGED <<calls, bufs, stub, installed, binaryPath, now, ticks, held>>

DoEncryptApiKeyWithDate(k) ==
    /\ \E apiKey \in EncryptKeys, t \in Times :
         last' = Call("EncryptApiKeyWithDate", k, apiKey, <<>>, t, 0,
                      EncryptApiKeyWithDate(k, apiKey, t))
    /\ UNCHANGED <<calls, bufs, stub, installed, binaryPath, now, ticks, held>>

DoValidateApiKey(k) ==
    /\ \E apiKey \in ApiKeys, e \in EncryptedKeys, t \in Times :
         last' = Call("ValidateApiKey", k, apiKey, e, t, 0,
                      ValidateApiKey(k, apiKey, e, t))
    /\ UNCHANGED <<calls, bufs, stub, installed, binaryPath, now, ticks, held>>

DoValidateApiKeyWithTolerance(k) ==
    /\ \E apiKey \in ApiKeys, e \in EncryptedKeys, t \in Times, m \in Tolerances :
         last' = Call("ValidateApiKeyWithTolerance", k, apiKey, e, t, m,
                      ValidateApiKeyWithTolerance(k, apiKey, e, t, m))
    /\ UNCHANGED <<calls, bufs, stub, installed, binaryPath, now, ticks, held>>

DoValidateApiKeyToday(k) ==
    /\ \E apiKey \in ApiKeys, e \in EncryptedKeys :
         last' = Call("ValidateApiKeyToday", k, apiKey, e, UTC(now), 0,
                      ValidateApiKeyToday(k, apiKey, e))
    /\ UNCHANGED <<calls, bufs, stub, installed, binaryPath, now, ticks, held>>

DoValidateApiKeyTodayWithTolerance(k) ==
    /\ \E apiKey \in ApiKeys, e \in EncryptedKeys, m \in Tolerances :
         last' = Call("ValidateApiKeyTodayWithTolerance", k, apiKey, e, UTC(now), m,
                      ValidateApiKeyTodayWithTolerance(k, apiKey, e, m))
    /\ UNCHANGED <<calls, bufs, stub, installed, binaryPath, now, ticks, held>>

DoGetDateString(k) ==
    /\ \E t \in Times :
         last' = Call("GetDateString", k, <<>>, <<>>, t, 0, GetDateString(k, t))
    /\ UNCHANGED <<calls, bufs, stub, installed, binaryPath, now, ticks, held>>

\* the helpers a call may go through: the caller's own (a method call), or the
\* one a package-level function makes with New()
Helpers == {binaryPath, NewHelper}

Next ==
    \/ New
    \/ NewWithBinaryPath
    \/ Tick
    \/ Keep
    \/ \E k \in Helpers : DoEncryptApiKey(k)
    \/ \E k \in Helpers : DoEncryptApiKeyWithDate(k)
    \/ \E k \in Helpers : DoValidateApiKey(k)
    \/ \E k \in Helpers : DoValidateApiKeyWithTolerance(k)
    \/ \E k \in Helpers : DoValidateApiKeyToday(k)
    \/ \E k \in Helpers : DoValidateApiKeyTodayWithTolerance(k)
    \/ \E k \in Helpers : DoGetDateString(k)

Spec == Init /\ [][Next]_vars

(***************************************************************************)
(* The wrapper over an arbitrary subprocess: what the program at the       *)
(* helper's path prints and how it exits is free, and fixed for the run.   *)
(***************************************************************************)
StubPrograms ==
    { StandIn(0, <<"t", "r", "u", "e", "\n">>),
      StandIn(0, <<" ", "\t", "t", "r", "u", "e", "\r", "\n">>),
      StandIn(0, <<"f", "a", "l", "s", "e", "\n">>),
      StandIn(0, <<"T", "r", "u", "e", "\n">>),
      StandIn(0, <<"t", "r", "u", "e", " ", "1", "\n">>),
      StandIn(0, <<"\n">>),
      StandIn(1, <<"t", "r", "u", "e", "\n">>) }

InitStub ==
    /\ installed = {DefaultBinaryPath}
    /\ binaryPath = NewHelper
    /\ now = ClockStart
    /\ ticks = 0
    /\ held = NoCall
    /\ last = NoCall
    /\ stub \in StubPrograms
    /\ calls = [g \in Goroutines |-> Idle]
    /\ bufs = [b \in Goroutines |-> <<>>]

NextStub ==
    \/ New
    \/ NewWithBinaryPath
    \/ \E k \in Helpers : DoEncryptApiKey(k)
    \/ \E k \in Helpers : DoEncryptApiKeyWithDate(k)
    \/ \E k \in Helpers : DoValidateApiKey(k)
    \/ \E k \in Helpers : DoValidateApiKeyWithTolerance(k)
    \/ \E k \in Helpers : DoValidateApiKeyToday(k)
    \/ \E k \in Helpers : DoValidateApiKeyTodayWithTolerance(k)
    \/ \E k \in Helpers : DoGetDateString(k)

SpecStub == InitStub /\ [][NextStub]_vars

(***************************************************************************)
(* Concurrent callers.  Goroutines share one helper, the installed files   *)
(* and the wall clock.  A call takes three steps: it reads the helper's    *)
(* binaryPath and builds the command; cmd.Run() starts the subprocess and  *)
(* collects its stdout in the buffer the call declared; the call turns     *)
(* the error and the buffer into its result.                               *)
(***************************************************************************)
\* the digest of the key k1 made on the day the clock starts
ClockDigest == TrimSpace(Binary("encrypt", <<(<<"k", "1">>)>>, ClockStart).stdout)

\* the calls the goroutines make: one of each operation that runs the binary,
\* among them one the binary refuses, one it answers false and two whose answer
\* depends on the instant the binary runs
ConcurrentCalls ==
    { [op |-> "EncryptApiKey", apiKey |-> <<"k", "1">>, encryptedKey |-> <<>>,
       time |-> NoTime, tol |-> 0],
      [op |-> "EncryptApiKeyWithDate", apiKey |-> <<>>, encryptedKey |-> <<>>,
       time |-> ClockStart, tol |-> 0],
      [op |-> "ValidateApiKey", apiKey |-> <<"k", "2">>, encryptedKey |-> ClockDigest,
       time |-> ClockStart, tol |-> 0],
      [op |-> "ValidateApiKeyWithTolerance", apiKey |-> <<"k", "1">>,
       encryptedKey |-> ClockDigest, time |-> ClockStart, tol |-> MaxTolerance],
      [op |-> "ValidateApiKeyToday", apiKey |-> <<"k", "1">>,
       encryptedKey |-> ClockDigest, time |-> NoTime, tol |-> 0],
      [op |-> "ValidateApiKeyTodayWithTolerance", apiKey |-> <<"k", "1">>,
       encryptedKey |-> ClockDigest, time |-> NoTime, tol |-> 0] }

\* exec.Command(h.binaryPath, ...) of each operation
CommandOf(c, k) ==
    CASE c.op = "EncryptApiKey" ->
           Command(k, "encrypt", <<c.apiKey>>)
      [] c.op = "EncryptApiKeyWithDate" ->
           Command(k, "encrypt-date", <<c.apiKey, FormatDashed(c.time)>>)
      [] c.op \in {"ValidateApiKey", "ValidateApiKeyWithTolerance"} ->
           Command(k, "validate-date",
                   <<c.apiKey, c.encryptedKey, FormatDashed(c.time)>>)
      [] c.op = "ValidateApiKeyToday" ->
           Command(k, "validate", <<c.apiKey, c.encryptedKey>>)
      [] c.op = "ValidateApiKeyTodayWithTolerance" ->
           Command(k, "validate-tolerance",
                   <<c.apiKey, c.encryptedKey, Itoa(c.tol)>>)

\* the message each operation wraps a failure of cmd.Run() in
MessageOf(op) ==
    CASE op = "EncryptApiKey" -> "failed to encrypt API key"
      [] op = "EncryptApiKeyWithDate" -> "failed to encrypt API key with date"
      [] op \in {"ValidateApiKey", "ValidateApiKeyWithTolerance"} ->
           "failed to validate API key"
      [] op = "ValidateApiKeyToday" -> "failed to validate API key for today"
      [] op = "ValidateApiKeyTodayWithTolerance" ->
           "failed to validate API key with tolerance"

\* the result each operation makes of the error and the collected stdout
ResultOf(op, r) ==
    IF op \in StringOps THEN StringResult(r, MessageOf(op))
    ELSE BoolResult(r, MessageOf(op))

\* the call run on its own, start to end, at the present instant
Alone(c, k) ==
    CASE c.op = "EncryptApiKey" -> EncryptApiKey(k, c.apiKey)
      [] c.op = "EncryptApiKeyWithDate" -> EncryptApiKeyWithDate(k, c.apiKey, c.time)
      [] c.op = "ValidateApiKey" ->
           ValidateApiKey(k, c.apiKey, c.encryptedKey, c.time)
      [] c.op = "ValidateApiKeyWithTolerance" ->
           ValidateApiKeyWithTolerance(k, c.apiKey, c.encryptedKey, c.time, c.tol)
      [] c.op = "ValidateApiKeyToday" ->
           ValidateApiKeyToday(k, c.apiKey, c.encryptedKey)
      [] c.op = "ValidateApiKeyTodayWithTolerance" ->
           ValidateApiKeyTodayWithTolerance(k, c.apiKey, c.encryptedKey, c.tol)

\* a stdout buffer that all calls share
StdoutBuffer_Shared(g) == 1

\* var out bytes.Buffer: the buffer of goroutine g's call is the call's own
StdoutBuffer(g) == g

InitConc ==
    /\ installed = {DefaultBinaryPath}
    /\ binaryPath \in {NewHelper} \cup {NewHelperWithBinaryPath(p) : p \in BinaryPaths}
    /\ now = ClockStart
    /\ ticks = 0
    /\ held = NoCall
    /\ last = NoCall
    /\ stub = NoStub
    /\ calls = [g \in Goroutines |-> Idle]
    /\ bufs = [b \in Goroutines |-> <<>>]

\* goroutine g enters an operation: builds the command from the helper's
\* binaryPath and declares an empty buffer for the stdout
Enter(g) ==
    /\ calls[g].pc \in {"idle", "returned"}
    /\ \E c \in ConcurrentCalls, k \in Helpers :
         calls' = [calls EXCEPT ![g] =
                     [pc |-> "built", op |-> c.op, apiKey |-> c.apiKey,
                      encryptedKey |-> c.encryptedKey, time |-> c.time,
                      tol |-> c.tol, cmd |-> CommandOf(c, k),
                      err |-> NoError, res |-> NoResult, alone |-> NoResult]]
    /\ bufs' = [bufs EXCEPT ![StdoutBuffer(g)] = <<>>]
    /\ UNCHANGED <<stub, installed, binaryPath, now, ticks, held, last>>

\* cmd.Run() of goroutine g: the subprocess runs now and its stdout is
\* written to the buffer
RunCommand(g) ==
    /\ calls[g].pc = "built"
    /\ LET r == Run(calls[g].cmd, installed, now)
       IN  /\ calls' = [calls EXCEPT ![g].pc = "ran", ![g].err = r.err,
                                     ![g].alone = Alone(calls[g], calls[g].cmd.path)]
           /\ bufs' = [bufs EXCEPT ![StdoutBuffer(g)] = @ \o r.out]
    /\ UNCHANGED <<stub, installed, binaryPath, now, ticks, held, last>>

\* goroutine g returns the result it makes of the error and out.String()
Return(g) ==
    /\ calls[g].pc = "ran"
    /\ calls' = [calls EXCEPT
                   ![g].pc = "returned",
                   ![g].res = ResultOf(calls[g].op,
                                       [err |-> calls[g].err,
                                        out |-> bufs[StdoutBuffer(g)]])]
    /\ UNCHANGED <<bufs, stub, installed, binaryPath, now, ticks, held, last>>

NextConc ==
    \/ \E g \in Goroutines : Enter(g)
    \/ \E g \in Goroutines : RunCommand(g)
    \/ \E g \in Goroutines : Return(g)
    \/ Tick

SpecConc == InitConc /\ [][NextConc]_vars

(***************************************************************************)
(* Vocabulary of the properties.                                           *)
(***************************************************************************)
\* the UTC calendar day of an instant, as a day number
UTCDay(t) == t.unix \div SecondsPerDay

DateValidateOps == {"ValidateApiKey", "ValidateApiKeyWithTolerance"}

TodayValidateOps == {"ValidateApiKeyToday", "ValidateApiKeyTodayWithTolerance"}

ValidateOps == DateValidateOps \cup TodayValidateOps

EncryptOps == {"EncryptApiKey", "EncryptApiKeyWithDate"}

\* the last call reached a binary that is installed at the helper's path
Started == last.path \in installed

\* the last call validates, with tolerance 0 and an explicit date, the digest the
\* caller kept from EncryptApiKeyWithDate
ValidatesKeptDigest ==
    /\ last.op \in DateValidateOps
    /\ held.op = "EncryptApiKeyWithDate"
    /\ last.encryptedKey = held.out

\* the arguments of the last validate call are ones Validate accepts
ValidArguments == last.apiKey # <<>> /\ last.encryptedKey # <<>> /\ last.tol >= 0

\* the digest presented is the digest of the presented key for no day at all
NoDayMatches ==
    \A z \in DayRange : last.encryptedKey # KeyedHash(last.apiKey, CompactOfDay[z])

(***************************************************************************)
(* C1  Round-trip: validating, with tolerance 0, the digest that           *)
(* EncryptApiKeyWithDate(apiKey, t) produced, against the same non-empty   *)
(* apiKey and the same t, returns true and no error (the binary being      *)
(* installed at the helper's path).                                        *)
(***************************************************************************)
C1_RoundTrip ==
    ( /\ ValidatesKeptDigest
      /\ last.tol = 0
      /\ last.apiKey = held.apiKey
      /\ last.time = held.time
      /\ Started )
    => (last.ok /\ last.err = Nil)

C1_Witness ==
    /\ ValidatesKeptDigest
    /\ last.tol = 0
    /\ last.apiKey = held.apiKey
    /\ last.apiKey # <<>>
    /\ last.time = held.time
    /\ Started
    /\ last.ok

(***************************************************************************)
(* C2  Tolerance bridges UTC day boundaries: with toleranceMinutes m > 0   *)
(* and |t1 - t0| <= m minutes, validating at t1 the digest encrypted at t0 *)
(* returns true, also across a UTC midnight.  Stated for t0 and t1 located *)
(* in UTC, as in the example of the claim.                                 *)
(***************************************************************************)
C2_ToleranceBridgesDays ==
    ( /\ ValidatesKeptDigest
      /\ last.op = "ValidateApiKeyWithTolerance"
      /\ last.tol > 0
      /\ last.apiKey = held.apiKey
      /\ last.time.unix - held.time.unix <= last.tol * 60
      /\ held.time.unix - last.time.unix <= last.tol * 60
      /\ last.time.off = 0 /\ held.time.off = 0
      /\ Started )
    => (last.ok /\ last.err = Nil)

(***************************************************************************)
(* C3  Zero tolerance is exact-day-only: validating at t1, with tolerance  *)
(* 0, the digest encrypted at t0 returns true when t0 and t1 are on the    *)
(* same UTC calendar day and false when they are on different ones.        *)
(***************************************************************************)
C3_ZeroToleranceExactDay ==
    ( /\ ValidatesKeptDigest
      /\ last.tol = 0
      /\ last.apiKey = held.apiKey
      /\ Started )
    => (last.err = Nil /\ (last.ok <=> UTCDay(last.time) = UTCDay(held.time)))

(***************************************************************************)
(* C4  Validate returns true if and only if encryptedKey is the digest of  *)
(* apiKey for the DateStamp of a candidate instant: referenceTime alone    *)
(* when toleranceMinutes = 0, and referenceTime, referenceTime -+          *)
(* toleranceMinutes when it is positive.  Stated for a referenceTime       *)
(* located in UTC and arguments Validate accepts.                          *)
(***************************************************************************)
C4_TrueIffCandidateMatches ==
    ( /\ last.op \in {"ValidateApiKeyWithTolerance", "ValidateApiKeyTodayWithTolerance"}
      /\ ValidArguments
      /\ last.time.off = 0
      /\ Started )
    => ( last.ok <=> \E c \in Candidates(last.time, last.tol) :
                       last.encryptedKey = KeyedHash(last.apiKey, DateStampOf(c)) )

(***************************************************************************)
(* C5  Wrong-key rejection: validating, at t and with tolerance 0, the     *)
(* digest that another key produced at t returns false, and does so        *)
(* without an error when the presented key is non-empty.                   *)
(***************************************************************************)
C5_WrongKeyRejected ==
    ( /\ ValidatesKeptDigest
      /\ last.tol = 0
      /\ last.apiKey # held.apiKey
      /\ last.time = held.time )
    => ( /\ ~last.ok
         /\ (last.apiKey # <<>> /\ Started) => last.err = Nil )

C5_Witness ==
    /\ ValidatesKeptDigest
    /\ last.tol = 0
    /\ last.apiKey # held.apiKey
    /\ last.apiKey # <<>>
    /\ last.time = held.time
    /\ Started
    /\ ~last.ok
    /\ last.err = Nil

(***************************************************************************)
(* C6  Mismatch is a value, not an error: a validate call with a non-empty *)
(* apiKey, a non-empty encryptedKey and a non-negative tolerance returns   *)
(* no error, and false when the digest does not match; an error is         *)
(* returned, with false, only when the validation could not be performed   *)
(* (the binary could not be started, or it refused the arguments).         *)
(***************************************************************************)
C6_MismatchIsNotAnError ==
    last.op \in ValidateOps =>
      /\ (ValidArguments /\ Started) => last.err = Nil
      /\ (ValidArguments /\ Started /\ NoDayMatches) => ~last.ok
      /\ last.err # Nil => (~last.ok /\ (~Started \/ ~ValidArguments))

C6_Witness ==
    /\ last.op \in ValidateOps
    /\ ValidArguments
    /\ Started
    /\ NoDayMatches
    /\ ~last.ok
    /\ last.err = Nil

(***************************************************************************)
(* C7  Encrypt rejects the empty key: EncryptApiKey("") and                *)
(* EncryptApiKeyWithDate("", t) fail and return no digest, the failure     *)
(* being the binary's InvalidInput exit whenever the binary was started;   *)
(* for a non-empty apiKey no encrypt call fails that way.                  *)
(***************************************************************************)
C7_EncryptRejectsEmptyKey ==
    last.op \in EncryptOps =>
      /\ last.apiKey = <<>> =>
           /\ last.err # Nil
           /\ last.out = <<>>
           /\ Started => last.err.cause = ExitError
      /\ last.apiKey # <<>> => last.err.cause # ExitError

C7_Witness ==
    /\ last.op \in EncryptOps
    /\ last.apiKey = <<>>
    /\ Started
    /\ last.err.cause = ExitError
    /\ last.out = <<>>

(***************************************************************************)
(* C8  Validate fails with InvalidInput exactly when apiKey is empty, or   *)
(* encryptedKey is empty, or toleranceMinutes is negative.                 *)
(***************************************************************************)
C8_InvalidInputExactly ==
    (last.op \in ValidateOps /\ Started) =>
      (last.err.cause = ExitError <=> ~ValidArguments)

(***************************************************************************)
(* C9  Same-day invariance of the date stamp: GetDateString gives eight    *)
(* digits, the same for any two instants on the same UTC calendar day and  *)
(* different ones for instants on different UTC calendar days.             *)
(***************************************************************************)
C9_SameDaySameStamp ==
    (last.op = "GetDateString" /\ held.op = "GetDateString") =>
      /\ Len(last.out) = 8
      /\ AllDigits(last.out)
      /\ last.out = held.out <=> UTCDay(last.time) = UTCDay(held.time)

(***************************************************************************)
(* C10  The date is always taken in UTC: GetDateString returns the UTC     *)
(* calendar date of the instant whatever zone it is located in, and two    *)
(* representations of one instant in different zones encrypt to the same   *)
(* digest.                                                                 *)
(***************************************************************************)
C10_DateTakenInUTC ==
    /\ last.op = "GetDateString" => last.out = DateStampOf(last.time)
    /\ ( /\ last.op = "EncryptApiKeyWithDate"
         /\ held.op = "EncryptApiKeyWithDate"
         /\ last.apiKey = held.apiKey
         /\ last.time.unix = held.time.unix
         /\ last.err = Nil )
       => last.out = held.out

(***************************************************************************)
(* C11  Determinism: an encrypt call with the same apiKey and the same     *)
(* instant as an earlier one returns the same digest, whatever calls,      *)
(* helper constructions and clock steps happened in between.               *)
(***************************************************************************)
RepeatsKeptEncrypt ==
    /\ last.op \in EncryptOps
    /\ held.op = last.op
    /\ last.apiKey = held.apiKey
    /\ last.time = held.time

C11_EncryptDeterministic ==
    RepeatsKeptEncrypt =>
      /\ Started => last.err = Nil
      /\ last.err = Nil => last.out = held.out

C11_Witness ==
    /\ RepeatsKeptEncrypt
    /\ last.op = "EncryptApiKeyWithDate"
    /\ ticks > 0
    /\ last.err = Nil
    /\ last.out = held.out
    /\ last.out # <<>>

(***************************************************************************)
(* C12  ValidateApiKeyToday(apiKey, digest) returns what                   *)
(* ValidateApiKey(apiKey, digest, now, 0) and                              *)
(* ValidateApiKeyTodayWithTolerance(apiKey, digest, 0) return at the same  *)
(* UTC instant now; and it accepts the digest of EncryptApiKey(apiKey)     *)
(* when both calls fall on the same UTC calendar day.                      *)
(***************************************************************************)
SameOutcome(r, q) == r.ok = q.ok /\ r.err.cause = q.err.cause

C12_TodayIsValidateNow ==
    /\ (last.op = "ValidateApiKeyToday" /\ last.time = UTC(now)) =>
         /\ SameOutcome(last, ValidateApiKey(last.path, last.apiKey,
                                             last.encryptedKey, UTC(now)))
         /\ SameOutcome(last, ValidateApiKeyTodayWithTolerance(
                                  last.path, last.apiKey, last.encryptedKey, 0))
    /\ ( /\ last.op = "ValidateApiKeyToday"
         /\ held.op = "EncryptApiKey"
         /\ last.apiKey = held.apiKey
         /\ last.encryptedKey = held.out
         /\ UTCDay(last.time) = UTCDay(held.time)
         /\ Started )
       => (last.ok /\ last.err = Nil)

C12_Witness ==
    /\ last.op = "ValidateApiKeyToday"
    /\ last.time = UTC(now)
    /\ held.op = "EncryptApiKey"
    /\ last.apiKey = held.apiKey
    /\ last.encryptedKey = held.out
    /\ UTCDay(last.time) = UTCDay(held.time)
    /\ last.ok
    /\ ValidateApiKey(last.path, last.apiKey, last.encryptedKey, UTC(now)).ok

C16_MonotonicInTolerance ==
    /\ (last.op = "ValidateApiKeyWithTolerance" /\ last.tol >= 0 /\ last.ok) =>
         \A m2 \in Tolerances : m2 >= last.tol =>
            ValidateApiKeyWithTolerance(last.path, last.apiKey, last.encryptedKey,
                                        last.time, m2).ok
    /\ ( /\ last.op = "ValidateApiKeyTodayWithTolerance"
         /\ last.time = UTC(now)
         /\ last.tol >= 0
         /\ last.ok )
       => \A m2 \in Tolerances : m2 >= last.tol =>
            ValidateApiKeyTodayWithTolerance(last.path, last.apiKey,
                                             last.encryptedKey, m2).ok

(***************************************************************************)
(* C15  Each validate operation returns (true, nil) exactly when the       *)
(* subprocess exits successfully and its stdout, surrounding whitespace    *)
(* trimmed, is "true"; (false, nil) for any other stdout of a successful   *)
(* subprocess; (false, error) when the subprocess cannot be started or     *)
(* exits with failure.  Each encrypt operation returns the trimmed stdout  *)
(* on success and ("", error) on failure.                                  *)
(***************************************************************************)
AllSpace(s) == \A i \in 1..Len(s) : IsSpace(s[i])

\* s is raw with the whitespace around it removed
IsTrimOf(s, raw) ==
    /\ s # <<>> => (~IsSpace(s[1]) /\ ~IsSpace(s[Len(s)]))
    /\ \E i \in 0..Len(raw) : \E j \in i..Len(raw) :
         /\ SubSeq(raw, i + 1, j) = s
         /\ AllSpace(SubSeq(raw, 1, i))
         /\ AllSpace(SubSeq(raw, j + 1, Len(raw)))

SubprocessSucceeded == stub.on /\ Started /\ stub.exit = 0

C15_ResultFollowsSubprocess ==
    /\ last.op \in ValidateOps =>
         IF SubprocessSucceeded
         THEN /\ last.err = Nil
              /\ last.ok <=> IsTrimOf(BoolText(TRUE), stub.stdout)
         ELSE ~last.ok /\ last.err # Nil
    /\ last.op \in EncryptOps =>
         IF SubprocessSucceeded
         THEN last.err = Nil /\ IsTrimOf(last.out, stub.stdout)
         ELSE last.out = <<>> /\ last.err # Nil

C15_Witness ==
    /\ last.op \in ValidateOps
    /\ SubprocessSucceeded
    /\ stub.stdout # BoolText(TRUE) \o <<"\n">>
    /\ IsSpace(stub.stdout[1])
    /\ last.ok
    /\ last.err = Nil

(***************************************************************************)
(* C13  Concurrent use is safe: calls running concurrently on one shared   *)
(* helper, or through the package-level functions, each return the result  *)
(* they would return if run alone, under every interleaving; no call       *)
(* writes state that another call reads; the helper's binaryPath is never  *)
(* modified after construction.                                            *)
(***************************************************************************)
InCall(g) == calls[g].pc \in {"built", "ran"}

ReturnsAsAlone ==
    \A g \in Goroutines : calls[g].pc = "returned" => calls[g].res = calls[g].alone

\* a step of one goroutine leaves what the other goroutines' calls read alone
NoInterference ==
    \A g \in Goroutines :
        calls'[g] # calls[g] =>
            \A h \in Goroutines \ {g} :
                /\ calls'[h] = calls[h]
                /\ InCall(h) => bufs'[StdoutBuffer(h)] = bufs[StdoutBuffer(h)]

C13_ConcurrentCallsAreSafe ==
    /\ []ReturnsAsAlone
    /\ [][NoInterference]_vars
    /\ [][binaryPath' = binaryPath /\ installed' = installed]_vars

C13_Witness ==
    \E g \in Goroutines : \E h \in Goroutines \ {g} :
        /\ calls[g].pc = "returned"
        /\ InCall(h)
        /\ calls[h].pc = "ran"
        /\ calls[h].op # calls[g].op
        /\ calls[g].op = "ValidateApiKeyToday"
        /\ calls[g].res.ok
        /\ calls[g].res = calls[g].alone
        /\ bufs[StdoutBuffer(h)] # bufs[StdoutBuffer(g)]
        /\ calls[g].cmd.path = binaryPath

====
